---- MODULE Spec2Model ----
(***************************************************************************)
(* commit-sage: the commit message generation pipeline.                    *)
(*                                                                         *)
(* Text (a Rust &str / String) is a sequence of one-character strings, so  *)
(* that the string operations of the source (split, splitn, starts_with,   *)
(* contains, trim) are computed character by character.  A diff is the     *)
(* sequence of its lines (what diff.lines() iterates over).                *)
(***************************************************************************)
EXTENDS Integers, Sequences, FiniteSets, TLC

(***************************************************************************)
(* &str helpers (Rust standard library semantics)                          *)
(***************************************************************************)

SetMin(S) == CHOOSE x \in S : \A y \in S : x <= y

SetMax(S) == CHOOSE x \in S : \A y \in S : x >= y

\* all positions at which pat occurs in s
Occurrences(s, pat) ==
    { i \in 1..(Len(s) - Len(pat) + 1) : SubSeq(s, i, i + Len(pat) - 1) = pat }

\* str::starts_with
starts_with(s, pat) == Len(s) >= Len(pat) /\ SubSeq(s, 1, Len(pat)) = pat

\* str::contains
contains(s, pat) == Occurrences(s, pat) # {}

\* s.splitn(2, pat).collect(): one part when pat does not occur, else two
splitn2(s, pat) ==
    IF Occurrences(s, pat) = {}
    THEN << s >>
    ELSE LET i == SetMin(Occurrences(s, pat))
         IN  << SubSeq(s, 1, i - 1), SubSeq(s, i + Len(pat), Len(s)) >>

\* s.split(c).next().unwrap_or(""): the text before the first c (all of s
\* when c does not occur; split always yields at least one item)
split_next(s, c) ==
    IF Occurrences(s, << c >>) = {}
    THEN s
    ELSE SubSeq(s, 1, SetMin(Occurrences(s, << c >>)) - 1)

\* s.split(c).last().unwrap_or(""): the text after the last c
split_last(s, c) ==
    IF Occurrences(s, << c >>) = {}
    THEN s
    ELSE SubSeq(s, SetMax(Occurrences(s, << c >>)) + 1, Len(s))

\* s.trim_start_matches(c): every leading c is removed
trim_start_matches(s, c) ==
    LET keep == { i \in 1..Len(s) : s[i] # c }
    IN  IF keep = {} THEN << >> ELSE SubSeq(s, SetMin(keep), Len(s))

Whitespace == { " ", "\t", "\n", "\r" }

\* str::trim: leading and trailing whitespace removed
trim(s) ==
    LET keep == { i \in 1..Len(s) : s[i] \notin Whitespace }
    IN  IF keep = {} THEN << >> ELSE SubSeq(s, SetMin(keep), SetMax(keep))

(***************************************************************************)
(* lib.rs: is_conventional_commit                                          *)
(***************************************************************************)

conventional_types ==
    { <<"f","e","a","t">>, <<"f","i","x">>, <<"d","o","c","s">>,
      <<"s","t","y","l","e">>, <<"r","e","f","a","c","t","o","r">>,
      <<"p","e","r","f">>, <<"t","e","s","t">>, <<"b","u","i","l","d">>,
      <<"c","i">>, <<"c","h","o","r","e">>, <<"r","e","v","e","r","t">> }

\* variant: the scope is not cut off the type part
is_conventional_commit_keeps_scope(message) ==
    LET parts == splitn2(message, << ":", " " >>)
    IN  IF Len(parts) # 2 THEN FALSE ELSE parts[1] \in conventional_types

is_conventional_commit(message) ==
    LET parts == splitn2(message, << ":", " " >>)
    IN  IF Len(parts) # 2
        THEN FALSE
        ELSE LET type_part == parts[1]
                 commit_type == IF contains(type_part, << "(" >>)
                                THEN split_next(type_part, "(")
                                ELSE type_part
             IN  commit_type \in conventional_types

(***************************************************************************)
(* protocol.rs: CommitMessageGenerator::validate_message                   *)
(***************************************************************************)

valid_types ==
    { <<"f","e","a","t">>, <<"f","i","x">>, <<"d","o","c","s">>,
      <<"s","t","y","l","e">>, <<"r","e","f","a","c","t","o","r">>,
      <<"p","e","r","f">>, <<"t","e","s","t">>, <<"b","u","i","l","d">>,
      <<"c","i">>, <<"c","h","o","r","e">>, <<"r","e","v","e","r","t">> }

\* variant: the scope is not cut off the type part
validate_message_keeps_scope(message) ==
    LET parts == splitn2(message, << ":", " " >>)
    IN  IF Len(parts) # 2 THEN FALSE ELSE parts[1] \in valid_types

validate_message(message) ==
    LET parts == splitn2(message, << ":", " " >>)
    IN  IF Len(parts) # 2
        THEN FALSE
        ELSE LET type_part == parts[1]
                 commit_type == IF contains(type_part, << "(" >>)
                                THEN split_next(type_part, "(")
                                ELSE type_part
             IN  commit_type \in valid_types

(***************************************************************************)
(* ai.rs: CommitContext                                                    *)
(***************************************************************************)

EmptyContext ==
    [ commit_type     |-> "",
      file_types      |-> << >>,
      new_files       |-> << >>,
      modified_files  |-> << >>,
      total_additions |-> 0,
      total_deletions |-> 0 ]

\* variant: the file-marker lines +++ and --- are counted as content
scan_line_counts_file_markers(st, line) ==
    IF starts_with(line, <<"d","i","f","f"," ","-","-","g","i","t">>)
    THEN LET file == trim_start_matches(split_last(line, " "), "b")
         IN  [ ctx |-> [ st.ctx EXCEPT !.file_types =
                                       Append(@, split_last(file, ".")) ],
               current_file |-> file ]
    ELSE IF starts_with(line, <<"n","e","w"," ","f","i","l","e">>)
    THEN [ st EXCEPT !.ctx.new_files = Append(@, st.current_file) ]
    ELSE IF starts_with(line, <<"m","o","d","i","f","i","e","d">>)
    THEN [ st EXCEPT !.ctx.modified_files = Append(@, st.current_file) ]
    ELSE IF starts_with(line, <<"+">>)
    THEN [ st EXCEPT !.ctx.total_additions = @ + 1 ]
    ELSE IF starts_with(line, <<"-">>)
    THEN [ st EXCEPT !.ctx.total_deletions = @ + 1 ]
    ELSE st

\* one iteration of the loop over diff.lines(): st = [ctx, current_file]
scan_line(st, line) ==
    IF starts_with(line, <<"d","i","f","f"," ","-","-","g","i","t">>)
    THEN LET file == trim_start_matches(split_last(line, " "), "b")
         IN  [ ctx |-> [ st.ctx EXCEPT !.file_types =
                                       Append(@, split_last(file, ".")) ],
               current_file |-> file ]
    ELSE IF starts_with(line, <<"n","e","w"," ","f","i","l","e">>)
    THEN [ st EXCEPT !.ctx.new_files = Append(@, st.current_file) ]
    ELSE IF starts_with(line, <<"m","o","d","i","f","i","e","d">>)
    THEN [ st EXCEPT !.ctx.modified_files = Append(@, st.current_file) ]
    ELSE IF starts_with(line, <<"+">>) /\ ~starts_with(line, <<"+","+","+">>)
    THEN [ st EXCEPT !.ctx.total_additions = @ + 1 ]
    ELSE IF starts_with(line, <<"-">>) /\ ~starts_with(line, <<"-","-","-">>)
    THEN [ st EXCEPT !.ctx.total_deletions = @ + 1 ]
    ELSE st

\* the loop over diff.lines(), lines lo..hi in order, starting from st.
\* The range is halved and the state after the first half is computed
\* before the second half is entered, so that a long diff does not nest
\* one level of evaluation per line.
RECURSIVE scan_lines(_, _, _, _)
scan_lines(diff, lo, hi, st) ==
    IF lo > hi THEN st
    ELSE IF lo = hi THEN scan_line(st, diff[lo])
    ELSE LET mid == (lo + hi) \div 2
             left == scan_lines(diff, lo, mid, st)
         IN  IF left.ctx.total_additions >= 0
             THEN scan_lines(diff, mid + 1, hi, left)
             ELSE left

\* variant: the refactoring test comes before the large-feature test
determine_commit_type_refactor_first(c) ==
    IF (\E i \in 1..Len(c.new_files) :
            contains(c.new_files[i], <<"C","a","r","g","o",".","t","o","m","l">>))
       /\ Len(c.new_files) > 5
    THEN "initial project setup"
    ELSE IF (\E i \in 1..Len(c.file_types) :
                 c.file_types[i] = <<"m","d">> \/ c.file_types[i] = <<"t","x","t">>)
            /\ Len(c.file_types) = 1
    THEN "documentation change"
    ELSE IF \E i \in 1..Len(c.new_files) :
                 contains(c.new_files[i], <<"t","e","s","t">>)
                 \/ contains(c.new_files[i], <<"s","p","e","c">>)
    THEN "test addition"
    ELSE IF c.total_deletions > c.total_additions * 2
    THEN "major refactoring"
    ELSE IF c.total_additions > 100 \/ Len(c.new_files) > 5
    THEN "large feature implementation"
    ELSE "standard change"

\* variant: the refactoring test is >= instead of >
determine_commit_type_ge(c) ==
    IF (\E i \in 1..Len(c.new_files) :
            contains(c.new_files[i], <<"C","a","r","g","o",".","t","o","m","l">>))
       /\ Len(c.new_files) > 5
    THEN "initial project setup"
    ELSE IF (\E i \in 1..Len(c.file_types) :
                 c.file_types[i] = <<"m","d">> \/ c.file_types[i] = <<"t","x","t">>)
            /\ Len(c.file_types) = 1
    THEN "documentation change"
    ELSE IF \E i \in 1..Len(c.new_files) :
                 contains(c.new_files[i], <<"t","e","s","t">>)
                 \/ contains(c.new_files[i], <<"s","p","e","c">>)
    THEN "test addition"
    ELSE IF c.total_additions > 100 \/ Len(c.new_files) > 5
    THEN "large feature implementation"
    ELSE IF c.total_deletions >= c.total_additions * 2
    THEN "major refactoring"
    ELSE "standard change"

\* the if / else-if chain that chooses commit_type
determine_commit_type(c) ==
    IF (\E i \in 1..Len(c.new_files) :
            contains(c.new_files[i], <<"C","a","r","g","o",".","t","o","m","l">>))
       /\ Len(c.new_files) > 5
    THEN "initial project setup"
    ELSE IF (\E i \in 1..Len(c.file_types) :
                 c.file_types[i] = <<"m","d">> \/ c.file_types[i] = <<"t","x","t">>)
            /\ Len(c.file_types) = 1
    THEN "documentation change"
    ELSE IF \E i \in 1..Len(c.new_files) :
                 contains(c.new_files[i], <<"t","e","s","t">>)
                 \/ contains(c.new_files[i], <<"s","p","e","c">>)
    THEN "test addition"
    ELSE IF c.total_additions > 100 \/ Len(c.new_files) > 5
    THEN "large feature implementation"
    ELSE IF c.total_deletions > c.total_additions * 2
    THEN "major refactoring"
    ELSE "standard change"

from_diff(diff) ==
    LET scanned == scan_lines(diff, 1, Len(diff),
                             [ ctx |-> EmptyContext, current_file |-> << >> ]).ctx
    IN  [ scanned EXCEPT !.commit_type = determine_commit_type(scanned) ]

\* variant: the arm of the refactoring category does not match its label
get_suggested_type_missing_arm(c) ==
    CASE c.commit_type = "initial project setup"        -> <<"f","e","a","t">>
      [] c.commit_type = "documentation change"         -> <<"d","o","c","s">>
      [] c.commit_type = "test addition"                -> <<"t","e","s","t">>
      [] c.commit_type = "large feature implementation" -> <<"f","e","a","t">>
      [] c.commit_type = "major refactor"               -> <<"r","e","f","a","c","t","o","r">>
      [] OTHER                                          -> <<"f","e","a","t">>

get_suggested_type(c) ==
    CASE c.commit_type = "initial project setup"        -> <<"f","e","a","t">>
      [] c.commit_type = "documentation change"         -> <<"d","o","c","s">>
      [] c.commit_type = "test addition"                -> <<"t","e","s","t">>
      [] c.commit_type = "large feature implementation" -> <<"f","e","a","t">>
      [] c.commit_type = "major refactoring"            -> <<"r","e","f","a","c","t","o","r">>
      [] OTHER                                          -> <<"f","e","a","t">>

(***************************************************************************)
(* config.rs / main.rs: the generation configuration of the client        *)
(***************************************************************************)

\* a piece of prompt text: literal text (named by s), the "{}" placeholder,
\* the rendered context or the diff text
Piece(k, s, c, lines) == [ k |-> k, s |-> s, ctx |-> c, lines |-> lines ]

Placeholder == Piece("{}", "{}", EmptyContext, << >>)

\* AiConfig::default().user_prompt_template: "... This is a {}, so ensure
\* ... Diff:\n{}"
user_prompt_template ==
    << Piece("lit", "Generate ... This is a ", EmptyContext, << >>),
       Placeholder,
       Piece("lit", ", so ensure ... Diff:\n", EmptyContext, << >>),
       Placeholder >>

\* temperature is an f32 in [0.0, 1.0]; it is kept in thousandths
Temperatures == { 300, 1000 }

Configs ==
    { [ model                |-> "mistralai/Mixtral-8x7B-Instruct-v0.1",
        temperature          |-> t,
        max_tokens           |-> 100,
        stop_sequences       |-> << "\n" >>,
        system_prompt        |-> "system_prompt",
        user_prompt_template |-> user_prompt_template ] : t \in Temperatures }

(***************************************************************************)
(* ai.rs: request construction                                             *)
(***************************************************************************)

\* CommitContext::to_prompt_context: the one-line summary of the context
to_prompt_context(c) == << Piece("ctx", "context", c, << >>) >>

\* str::replace("{}", to): EVERY occurrence of the placeholder is replaced
RECURSIVE replace(_, _)
replace(text, to) ==
    IF text = << >>
    THEN << >>
    ELSE (IF Head(text).k = "{}" THEN to ELSE << Head(text) >>)
         \o replace(Tail(text), to)

diff_text(diff) == << Piece("diff", "diff", EmptyContext, diff) >>

build_request(cfg, c, diff) ==
    [ model       |-> cfg.model,
      messages    |-> << [ role |-> "system", content |-> cfg.system_prompt ],
                         [ role |-> "user",
                           content |-> replace(replace(cfg.user_prompt_template,
                                                       to_prompt_context(c)),
                                               diff_text(diff)) ] >>,
      temperature |-> cfg.temperature,
      max_tokens  |-> cfg.max_tokens,
      stop        |-> cfg.stop_sequences ]

(***************************************************************************)
(* error.rs: Error, and Result<String>                                     *)
(***************************************************************************)

\* Option<Error>::None
NoError == [ variant |-> "None", status |-> 0, text |-> "" ]

\* Error::Request(reqwest::Error); status 0 stands for status() = None
RequestError(status) == [ variant |-> "Request", status |-> status, text |-> "" ]

\* Error::CommitMessageGeneration(String)
CommitMessageGeneration(text) ==
    [ variant |-> "CommitMessageGeneration", status |-> 0, text |-> text ]

\* Error::Git(git2::Error)
GitError == [ variant |-> "Git", status |-> 0, text |-> "" ]

\* Error::Io(std::io::Error)
IoError == [ variant |-> "Io", status |-> 0, text |-> "" ]

\* Error::NoChanges
NoChanges == [ variant |-> "NoChanges", status |-> 0, text |-> "" ]

\* Error::NoApiKey
NoApiKey == [ variant |-> "NoApiKey", status |-> 0, text |-> "" ]

Ok(val) == [ ok |-> TRUE, val |-> val, err |-> NoError ]

Err(e) == [ ok |-> FALSE, val |-> << >>, err |-> e ]

NoResult == [ ok |-> FALSE, val |-> << >>, err |-> NoError ]

(***************************************************************************)
(* The completion endpoint: what one exchange can produce                  *)
(***************************************************************************)

SERVICE_UNAVAILABLE == 503

TOO_MANY_REQUESTS == 429

UNAUTHORIZED == 401

\* the largest number of completion choices in a decoded body
MaxChoices == 2

\* contents of a completion choice
Contents ==
    { <<"f","e","a","t",":"," ","a","d","d"," ","x">>,
      <<" ","f","e","a","t",":"," ","a","d","d"," ","x","\n">>,
      <<"f","i","x","(","c","o","r","e",")",":"," ","y">>,
      <<"d","o","c","s",":"," ","z">>,
      <<"d","o","c","s","(","r","e","a","d","m","e",")",":"," ","w">>,
      <<"r","a","n","d","o","m"," ","m","e","s","s","a","g","e">>,
      <<"b","o","g","u","s",":"," ","x">> }

ChoiceLists == UNION { [ 1..n -> Contents ] : n \in 0..MaxChoices }

\* kind "transport": send() fails; kind "http": a response with a status, a
\* body that decodes into ChatResponse or not, and the decoded choices
Responses ==
    { [ kind |-> "transport", status |-> 0, decodes |-> FALSE, choices |-> << >> ] }
    \cup { [ kind |-> "http", status |-> st, decodes |-> FALSE, choices |-> << >> ] :
             st \in { SERVICE_UNAVAILABLE, TOO_MANY_REQUESTS, UNAUTHORIZED,
                      500, 200 } }
    \cup { [ kind |-> "http", status |-> 200, decodes |-> TRUE, choices |-> cs ] :
             cs \in ChoiceLists }

\* Response::error_for_status: client and server error statuses fail
is_error_status(st) == st >= 400 /\ st < 600

\* variant: the last choice is taken instead of the first
try_generate_message_last_choice(resp) ==
    IF resp.kind = "transport"
    THEN Err(RequestError(0))
    ELSE IF is_error_status(resp.status)
    THEN Err(RequestError(resp.status))
    ELSE IF ~resp.decodes
    THEN Err(RequestError(0))
    ELSE IF resp.choices = << >>
    THEN Err(CommitMessageGeneration("No response from API"))
    ELSE Ok(trim(resp.choices[Len(resp.choices)]))

\* AiClient::try_generate_message, given what the endpoint answers
try_generate_message(resp) ==
    IF resp.kind = "transport"
    THEN Err(RequestError(0))
    ELSE IF is_error_status(resp.status)
    THEN Err(RequestError(resp.status))
    ELSE IF ~resp.decodes
    THEN Err(RequestError(0))
    ELSE IF resp.choices = << >>
    THEN Err(CommitMessageGeneration("No response from API"))
    ELSE Ok(trim(resp.choices[1]))

(***************************************************************************)
(* ai.rs: AiClient::generate_commit_message                                *)
(***************************************************************************)

MAX_RETRIES == 3

INITIAL_RETRY_DELAY_MS == 1000

\* variant: the exponent is retry instead of retry - 1
retry_delay_doubled(retry) == INITIAL_RETRY_DELAY_MS * (2 ^ retry)

\* the backoff slept before outer attempt retry (retry > 0)
retry_delay(retry) == INITIAL_RETRY_DELAY_MS * (2 ^ (retry - 1))

\* variant: the pre-validation is skipped
outer_valid_unchecked(message) == TRUE

\* "Pre-validate the message" of an outer attempt
outer_valid(message) == is_conventional_commit(message)

\* message.split(':').next().unwrap_or("").split('(').next().unwrap_or("")
msg_type(message) == split_next(split_next(message, ":"), "(")

\* variant: the scope is not cut off before the comparison
type_matches_with_scope(message, c) ==
    split_next(message, ":") = get_suggested_type(c)

type_matches(message, c) == msg_type(message) = get_suggested_type(c)

\* variant: the second chance is taken on the last outer attempt too
may_retry_lower_always(retry) == retry < MAX_RETRIES

\* the second chance is taken on every outer attempt but the last
may_retry_lower(retry) == retry < MAX_RETRIES - 1

\* new_request.temperature *= 0.8
lower_temperature(req) == [ req EXCEPT !.temperature = (@ * 8) \div 10 ]

\* variant: the text of the sub-attempt is not checked
sub_valid_unchecked(new_message) == TRUE

\* the check applied to the text of the sub-attempt
sub_valid(new_message) == is_conventional_commit(new_message)

\* variant: a failure of the sub-attempt is propagated (as with `?`)
sub_result_propagates(r, message) ==
    IF ~r.ok THEN Err(r.err)
    ELSE IF is_conventional_commit(r.val) THEN Ok(r.val) ELSE Ok(message)

\* the result of the sub-attempt branch: the new message when the
\* sub-attempt is Ok and valid, otherwise the original message
sub_result(r, message) ==
    IF r.ok /\ sub_valid(r.val) THEN Ok(r.val) ELSE Ok(message)

\* variant: 429 is not retried
is_retryable_only_503(e) ==
    e.variant = "Request" /\ e.status = SERVICE_UNAVAILABLE

\* variant: every server error status is retried
is_retryable_any_5xx(e) ==
    e.variant = "Request" /\ (e.status >= 500 \/ e.status = TOO_MANY_REQUESTS)

\* variant: an error that is not a request error is retried as well
is_retryable_or_malformed(e) ==
    \/ e.variant # "Request"
    \/ e.status = SERVICE_UNAVAILABLE
    \/ e.status = TOO_MANY_REQUESTS

\* only Error::Request with status 503 or 429 is retried
is_retryable(e) ==
    /\ e.variant = "Request"
    /\ e.status # 0
    /\ (e.status = SERVICE_UNAVAILABLE \/ e.status = TOO_MANY_REQUESTS)

\* variant: the remembered error is dropped
exhausted_error_generic(last) ==
    CommitMessageGeneration("Maximum retries exceeded")

\* last_error.unwrap_or_else(|| CommitMessageGeneration("Maximum retries exceeded"))
exhausted_error(last) ==
    IF last = NoError
    THEN CommitMessageGeneration("Maximum retries exceeded")
    ELSE last

\* variant: the request of an outer attempt is not awaited
after_send_no_await(kind) == IF kind = "outer" THEN "call" ELSE "await_sub"

\* where the caller is after a request has been sent
after_send(kind) == IF kind = "outer" THEN "await_outer" ELSE "await_sub"

\* the diffs a call is made with
Diffs ==
    { << >>,
      << <<"d","i","f","f"," ","-","-","g","i","t"," ","a","/","R","E","A","D","M","E",".","m","d"," ","b","/","R","E","A","D","M","E",".","m","d">>,
         <<"-","-","-"," ","a","/","R","E","A","D","M","E",".","m","d">>,
         <<"+","+","+"," ","b","/","R","E","A","D","M","E",".","m","d">>,
         <<"+","x">> >>,
      << <<"d","i","f","f"," ","-","-","g","i","t"," ","a","/","s","r","c","/","l","i","b",".","r","s"," ","b","/","s","r","c","/","l","i","b",".","r","s">>,
         <<"-","y">>, <<"-","y">>, <<"-","y">>, <<"+","x">> >> }

VARIABLES
    config,      \* AiClient.config
    pc,          \* where the generate_commit_message call is
    diff,        \* the argument of the call
    context,     \* CommitContext::from_diff(diff)
    request,     \* the ChatRequest built before the loop
    new_request, \* the clone with the lowered temperature
    retry,       \* the loop variable
    last_error,  \* Option<Error>
    message,     \* the Ok(message) of the current outer attempt
    result,      \* the value the call returned (pc = "done")
    inflight,    \* indices (in sent) of the requests awaiting an answer
    sent,        \* history: every request sent, in order
    received,    \* history: the Result of every exchange, in order
    sleeps,      \* history: every backoff sleep, in order
    response,    \* what the endpoint answered to a single exchange
    is_conventional, \* the value is_conventional_commit(message) returned
    is_valid,    \* the value validate_message(message) returned
    main_pc,     \* where main is
    commit_config,  \* config.commit, after the command line overrides
    api_key,     \* args.api_key.or_else(TOGETHER_API_KEY)
    repo_status, \* the working tree main runs in: "clean" or "dirty"
    input,       \* the line read from stdin at the confirmation prompt
    commits,     \* history: the messages of the commits main created
    exit         \* the value main returned

\* main's own state
main_vars == << main_pc, commit_config, api_key, repo_status, input, commits, exit >>

\* the variables that generate_commit_message does not touch
pure_vars == << response, is_conventional, is_valid, main_vars >>

vars == << config, pc, diff, context, request, new_request, retry, last_error,
           message, result, inflight, sent, received, sleeps, pure_vars >>

NoResponse == [ kind |-> "none", status |-> 0, decodes |-> FALSE, choices |-> << >> ]

NoRequest == build_request(CHOOSE c \in Configs : TRUE, EmptyContext, << >>)

\* stdin has not been read
NoInput == << "unread" >>

\* CommitConfig::default()
DefaultCommitConfig ==
    [ auto_commit |-> FALSE, verify_format |-> TRUE, require_confirmation |-> TRUE ]

\* main has not begun
MainNotStarted ==
    /\ is_valid = FALSE
    /\ main_pc = "start"
    /\ commit_config = DefaultCommitConfig
    /\ api_key = "none"
    /\ repo_status = "clean"
    /\ input = NoInput
    /\ commits = << >>
    /\ exit = NoResult

\* AiClient::new(api_key, config)
Init ==
    /\ config \in Configs
    /\ pc = "idle"
    /\ diff = << >>
    /\ context = EmptyContext
    /\ request = NoRequest
    /\ new_request = NoRequest
    /\ retry = 0
    /\ last_error = NoError
    /\ message = << >>
    /\ result = NoResult
    /\ inflight = { }
    /\ sent = << >>
    /\ received = << >>
    /\ sleeps = << >>
    /\ response = NoResponse
    /\ is_conventional = FALSE
    /\ MainNotStarted

\* variant: the first line of the diff is left out of the classification
Generate_skips_first_line(d) ==
    /\ pc = "idle"
    /\ diff' = d
    /\ context' = from_diff(IF d = << >> THEN d ELSE Tail(d))
    /\ request' = build_request(config, from_diff(IF d = << >> THEN d ELSE Tail(d)), d)
    /\ last_error' = NoError
    /\ retry' = 0
    /\ pc' = "loop"
    /\ UNCHANGED << pure_vars, config, new_request, message, result, inflight, sent,
                    received, sleeps >>

\* the call: classification and request construction, before the loop
Generate(d) ==
    /\ pc = "idle"
    /\ diff' = d
    /\ context' = from_diff(d)
    /\ request' = build_request(config, from_diff(d), d)
    /\ last_error' = NoError
    /\ retry' = 0
    /\ pc' = "loop"
    /\ UNCHANGED << pure_vars, config, new_request, message, result, inflight, sent,
                    received, sleeps >>

\* if retry > 0 { tokio::time::sleep(...).await }: the sleep begins
Sleep ==
    /\ pc = "loop"
    /\ retry < MAX_RETRIES
    /\ retry > 0
    /\ sleeps' = Append(sleeps, [ ms |-> retry_delay(retry), before |-> retry,
                                  nsent |-> Len(sent) ])
    /\ pc' = "sleeping"
    /\ UNCHANGED << pure_vars, config, diff, context, request, new_request, retry,
                    last_error, message, result, inflight, sent, received >>

\* the sleep is over
Wake ==
    /\ pc = "sleeping"
    /\ pc' = "call"
    /\ UNCHANGED << pure_vars, config, diff, context, request, new_request, retry,
                    last_error, message, result, inflight, sent, received,
                    sleeps >>

\* self.try_generate_message(&request): the request of an outer attempt
\* goes out and the call awaits the answer
SendOuter ==
    /\ \/ pc = "loop" /\ retry = 0
       \/ pc = "call"
    /\ sent' = Append(sent, [ kind |-> "outer", retry |-> retry, req |-> request,
                              nsleeps |-> Len(sleeps) ])
    /\ inflight' = inflight \cup { Len(sent) + 1 }
    /\ pc' = after_send("outer")
    /\ UNCHANGED << pure_vars, config, diff, context, request, new_request, retry,
                    last_error, message, result, received, sleeps >>

\* the match on the result of an outer attempt
RecvOuter(resp) ==
    /\ pc = "await_outer"
    /\ LET r == try_generate_message(resp) IN
       /\ received' = Append(received, r)
       /\ inflight' = inflight \ { Len(received) + 1 }
       /\ IF r.ok
          THEN IF ~outer_valid(r.val)
               THEN \* continue
                    /\ retry' = retry + 1
                    /\ pc' = "loop"
                    /\ UNCHANGED << last_error, message, new_request, result >>
               ELSE IF type_matches(r.val, context)
               THEN /\ result' = Ok(r.val)
                    /\ pc' = "done"
                    /\ message' = r.val
                    /\ UNCHANGED << last_error, retry, new_request >>
               ELSE IF may_retry_lower(retry)
               THEN /\ new_request' = lower_temperature(request)
                    /\ message' = r.val
                    /\ pc' = "call_sub"
                    /\ UNCHANGED << last_error, retry, result >>
               ELSE /\ result' = Ok(r.val)
                    /\ pc' = "done"
                    /\ message' = r.val
                    /\ UNCHANGED << last_error, retry, new_request >>
          ELSE IF is_retryable(r.err)
               THEN /\ last_error' = r.err
                    /\ retry' = retry + 1
                    /\ pc' = "loop"
                    /\ UNCHANGED << message, new_request, result >>
               ELSE /\ result' = Err(r.err)
                    /\ pc' = "done"
                    /\ UNCHANGED << last_error, retry, message, new_request >>
    /\ UNCHANGED << pure_vars, config, diff, context, request, sent, sleeps >>

\* self.try_generate_message(&new_request): the lower-temperature request
SendSub ==
    /\ pc = "call_sub"
    /\ sent' = Append(sent, [ kind |-> "sub", retry |-> retry, req |-> new_request,
                              nsleeps |-> Len(sleeps) ])
    /\ inflight' = inflight \cup { Len(sent) + 1 }
    /\ pc' = after_send("sub")
    /\ UNCHANGED << pure_vars, config, diff, context, request, new_request, retry,
                    last_error, message, result, received, sleeps >>

\* the if-let on the result of the sub-attempt, and the fall through
RecvSub(resp) ==
    /\ pc = "await_sub"
    /\ LET r == try_generate_message(resp) IN
       /\ received' = Append(received, r)
       /\ inflight' = inflight \ { Len(received) + 1 }
       /\ result' = sub_result(r, message)
    /\ pc' = "done"
    /\ UNCHANGED << pure_vars, config, diff, context, request, new_request, retry,
                    last_error, message, sent, sleeps >>

\* variant: the loop is left one iteration too late
Exhausted_off_by_one ==
    /\ pc = "loop"
    /\ retry > MAX_RETRIES
    /\ result' = Err(exhausted_error(last_error))
    /\ pc' = "done"
    /\ UNCHANGED << pure_vars, config, diff, context, request, new_request, retry,
                    last_error, message, inflight, sent, received, sleeps >>

\* the loop is over: Err(last_error.unwrap_or_else(...))
Exhausted ==
    /\ pc = "loop"
    /\ retry >= MAX_RETRIES
    /\ result' = Err(exhausted_error(last_error))
    /\ pc' = "done"
    /\ UNCHANGED << pure_vars, config, diff, context, request, new_request, retry,
                    last_error, message, inflight, sent, received, sleeps >>

Next ==
    \/ \E d \in Diffs : Generate(d)
    \/ Sleep
    \/ Wake
    \/ SendOuter
    \/ \E resp \in Responses : RecvOuter(resp)
    \/ SendSub
    \/ \E resp \in Responses : RecvSub(resp)
    \/ Exhausted

Spec == Init /\ [][Next]_vars

\* The call is one future driven to completion by the runtime: a step that
\* can be taken is taken, the timer of a sleep fires, and every request is
\* answered with a response or a failure.  Whether a call is made at all is
\* left to the caller.
FairSpec ==
    /\ Spec
    /\ WF_vars(Sleep)
    /\ WF_vars(Wake)
    /\ WF_vars(SendOuter)
    /\ WF_vars(\E resp \in Responses : RecvOuter(resp))
    /\ WF_vars(SendSub)
    /\ WF_vars(\E resp \in Responses : RecvSub(resp))
    /\ WF_vars(Exhausted)

TypeOK ==
    /\ pc \in { "idle", "loop", "sleeping", "call", "await_outer", "call_sub",
                "await_sub", "done" }
    /\ retry \in 0..MAX_RETRIES
(***************************************************************************)
(* Properties of generate_commit_message                                   *)
(***************************************************************************)

\* the i-th exchange failed with status 503 or 429
RetryableFailure(r) ==
    /\ ~r.ok
    /\ r.err.variant = "Request"
    /\ r.err.status \in { SERVICE_UNAVAILABLE, TOO_MANY_REQUESTS }

\* the exchange failed, and not with status 503 or 429
TerminalFailure(r) ==
    /\ ~r.ok
    /\ ~(r.err.variant = "Request"
         /\ r.err.status \in { SERVICE_UNAVAILABLE, TOO_MANY_REQUESTS })

MalformedResponse(r) ==
    ~r.ok /\ r.err = CommitMessageGeneration("No response from API")

\* the exchange returned a text that passes the grammar validator
ValidText(r) == r.ok /\ is_conventional_commit(r.val)

InvalidText(r) == r.ok /\ ~is_conventional_commit(r.val)

\* the leading type token: the text before ':' and then before '('
LeadingType(text) == split_next(split_next(text, ":"), "(")

SuggestedType == get_suggested_type(from_diff(diff))

Matching(r) == ValidText(r) /\ LeadingType(r.val) = SuggestedType

Mismatched(r) == ValidText(r) /\ LeadingType(r.val) # SuggestedType

\* the exchanges completed so far
Answered == 1..Len(received)

OuterAnswered == { i \in Answered : sent[i].kind = "outer" }

\* the error of the most recent outer attempt that failed with 503 or 429
LastRetryableError ==
    LET idx == { i \in OuterAnswered : RetryableFailure(received[i]) }
    IN  IF idx = { } THEN NoError ELSE received[SetMax(idx)].err

\* C1: outer attempts 0..k-1 failing with 503/429 are remembered and the
\* loop goes on; when attempt k then returns a valid, type-matching message,
\* that message is returned, exactly k+1 requests were sent, and the sleeps
\* between them were 1000 ms, then 2000 ms.
C1_RetryableThenSuccess ==
    \A k \in 0..(MAX_RETRIES - 1) :
        /\ ( /\ k >= 1
             /\ Len(received) = k
             /\ \A i \in 1..k : RetryableFailure(received[i]) )
           => /\ pc \in { "loop", "sleeping", "call", "await_outer" }
              /\ retry = k
              /\ last_error = received[k].err
              /\ result = NoResult
        /\ ( /\ Len(received) >= k + 1
             /\ \A i \in 1..k : RetryableFailure(received[i])
             /\ Matching(received[k + 1]) )
           => /\ pc = "done"
              /\ result = Ok(received[k + 1].val)
              /\ Len(sent) = k + 1
              /\ \A i \in 1..(k + 1) : sent[i].kind = "outer"
              /\ Len(sleeps) = k
              /\ \A j \in 1..k : /\ sleeps[j].ms = 1000 * (2 ^ (j - 1))
                                 /\ sleeps[j].nsent = j
                                 /\ sent[j + 1].nsleeps = j

C1_Witness ==
    /\ pc = "done"
    /\ Len(received) = 3
    /\ RetryableFailure(received[1])
    /\ RetryableFailure(received[2])
    /\ received[2].err.status = TOO_MANY_REQUESTS
    /\ Matching(received[3])
    /\ result = Ok(received[3].val)

\* C2: an outer attempt that fails with anything but a 503/429 status ends
\* the call with that error: no request and no sleep follows it.
C2_TerminalFailureReturned ==
    \A i \in OuterAnswered :
        TerminalFailure(received[i])
        => /\ pc = "done"
           /\ result = Err(received[i].err)
           /\ Len(sent) = i
           /\ Len(received) = i
           /\ \A j \in 1..Len(sleeps) : sleeps[j].nsent < i

C2_Witness ==
    /\ pc = "done"
    /\ Len(sent) = 1
    /\ received = << Err(RequestError(UNAUTHORIZED)) >>
    /\ result = Err(RequestError(UNAUTHORIZED))

\* C3: when the loop runs out, the call fails with the most recently
\* remembered 503/429 error, or with the generic error when no attempt
\* failed that way; the generic error needs all three outer attempts.
C3_ExhaustedError ==
    /\ (pc = "done" /\ retry = MAX_RETRIES)
       => result = Err(IF LastRetryableError = NoError
                       THEN CommitMessageGeneration("Maximum retries exceeded")
                       ELSE LastRetryableError)
    /\ result = Err(CommitMessageGeneration("Maximum retries exceeded"))
       => /\ Cardinality(OuterAnswered) = MAX_RETRIES
          /\ \A i \in OuterAnswered : InvalidText(received[i])

C3_Witness ==
    /\ pc = "done"
    /\ retry = MAX_RETRIES
    /\ Len(received) = 3
    /\ received[1] = Err(RequestError(TOO_MANY_REQUESTS))
    /\ received[2] = Err(RequestError(SERVICE_UNAVAILABLE))
    /\ InvalidText(received[3])
    /\ result = Err(RequestError(SERVICE_UNAVAILABLE))

\* C4: a successful result always passes the grammar validator.
C4_OkIsConventional ==
    result.ok => is_conventional_commit(result.val)

C4_Witness ==
    /\ pc = "done"
    /\ result.ok
    /\ Len(sent) >= 2
    /\ sent[Len(sent)].kind = "sub"
    /\ received[Len(received)].ok
    /\ result.val = received[Len(received)].val
    /\ result.val # message

\* C5: a grammar-invalid text of an outer attempt is discarded: the step
\* that receives it issues nothing, leaves the remembered error alone and
\* moves to the next turn of the loop; a sub-attempt never follows it.
C5_InvalidTextContinues ==
    /\ [][ ( /\ pc = "await_outer"
             /\ Len(received') = Len(received) + 1
             /\ InvalidText(received'[Len(received')]) )
           => /\ pc' = "loop"
              /\ retry' = retry + 1
              /\ last_error' = last_error
              /\ result' = result
              /\ sent' = sent
              /\ new_request' = new_request ]_vars
    /\ [](\A i \in 1..Len(sent) :
              (i > 1 /\ InvalidText(received[i - 1])) => sent[i].kind = "outer")

C5_Witness ==
    /\ pc = "await_outer"
    /\ retry = 2
    /\ Len(received) = 2
    /\ InvalidText(received[1])
    /\ RetryableFailure(received[2])
    /\ last_error = received[2].err

\* C6: a valid message of an outer attempt whose leading type equals the
\* suggested type is returned at once: that request is the last one sent.
C6_MatchReturnsAtOnce ==
    \A i \in OuterAnswered :
        Matching(received[i])
        => /\ pc = "done"
           /\ result = Ok(received[i].val)
           /\ Len(sent) = i
           /\ \A j \in 1..Len(sent) : sent[j].kind = "outer"

C6_Witness ==
    /\ pc = "done"
    /\ Len(sent) = 2
    /\ Matching(received[2])
    /\ contains(received[2].val, << "(" >>)
    /\ result = Ok(received[2].val)

\* C7: a second-chance request is sent exactly when a non-final outer
\* attempt got a valid but type-mismatched message; it is sent once, with
\* no sleep before it, and differs from the outer request only in the
\* temperature, which is the configured one times 0.8.
C7_SecondChance ==
    /\ \A i \in 1..Len(sent) :
           sent[i].kind = "sub"
           => /\ i > 1
              /\ sent[i - 1].kind = "outer"
              /\ sent[i - 1].retry = sent[i].retry
              /\ sent[i].retry < MAX_RETRIES - 1
              /\ Mismatched(received[i - 1])
              /\ sent[i].nsleeps = sent[i - 1].nsleeps
              /\ sent[i].req = [ sent[i - 1].req EXCEPT
                                   !.temperature = (config.temperature * 8) \div 10 ]
    /\ \A i \in OuterAnswered :
           (Mismatched(received[i]) /\ sent[i].retry < MAX_RETRIES - 1)
           => \/ pc = "call_sub" /\ Len(sent) = i
              \/ Len(sent) = i + 1 /\ sent[i + 1].kind = "sub"

C7_Witness ==
    /\ Len(sent) = 3
    /\ sent[3].kind = "sub"
    /\ sent[3].retry = 1
    /\ sent[3].req.temperature = 240
    /\ sent[2].req.temperature = 300

\* C8: once a sub-attempt has been made the call succeeds: with the text
\* of the sub-attempt when it is valid, otherwise (failure or invalid
\* text) with the original message; the failure of a sub-attempt is never
\* remembered.
C8_SubAttemptAlwaysSucceeds ==
    (pc = "done" /\ Len(sent) >= 1 /\ sent[Len(sent)].kind = "sub")
    => LET n == Len(sent) IN
       /\ result.ok
       /\ result.val = IF ValidText(received[n])
                       THEN received[n].val
                       ELSE received[n - 1].val
       /\ last_error = LastRetryableError

C8_Witness ==
    /\ pc = "done"
    /\ Len(sent) = 3
    /\ sent[3].kind = "sub"
    /\ received[1] = Err(RequestError(SERVICE_UNAVAILABLE))
    /\ received[3] = Err(RequestError(UNAUTHORIZED))
    /\ result = Ok(received[2].val)
    /\ last_error = RequestError(SERVICE_UNAVAILABLE)

\* C9 (as claimed): a MalformedResponse on a non-final outer attempt does
\* not end the call with that error; the next outer attempt is made.
C9_MalformedContinues ==
    \A i \in OuterAnswered :
        (MalformedResponse(received[i]) /\ sent[i].retry < MAX_RETRIES - 1)
        => ~(pc = "done" /\ result = Err(received[i].err))

\* C9 (amended): a MalformedResponse on an outer attempt, final or not,
\* ends the call with that error and no further request is sent.
C9_MalformedIsTerminal ==
    \A i \in OuterAnswered :
        MalformedResponse(received[i])
        => /\ pc = "done"
           /\ result = Err(CommitMessageGeneration("No response from API"))
           /\ Len(sent) = i
           /\ retry = sent[i].retry

C9_Witness ==
    /\ pc = "done"
    /\ Len(sent) = 2
    /\ sent[2].retry = 1
    /\ MalformedResponse(received[2])
    /\ result = Err(CommitMessageGeneration("No response from API"))

\* C10: at most one request is in flight; a request is sent only after
\* every earlier one was answered, and no request is in flight during a
\* backoff sleep.
C10_OneRequestInFlight ==
    /\ Cardinality(inflight) <= 1
    /\ Len(sent) <= Len(received) + 1
    /\ inflight = { i \in 1..Len(sent) : i > Len(received) }
    /\ pc \in { "sleeping", "call", "call_sub" } => inflight = { }

C10_Witness ==
    /\ pc = "await_sub"
    /\ inflight = { 2 }
    /\ Len(received) = 1
    /\ Len(sleeps) = 0
(***************************************************************************)
(* lib.rs: is_conventional_commit applied to one message                   *)
(***************************************************************************)

\* the longest message, in segments
MaxParts == 3

\* the pieces messages are put together from
Segments ==
    { <<"f","e","a","t">>, <<"f","i","x">>, <<"b","o","g","u","s">>,
      <<":"," ">>, <<":">>, <<"(">>, <<"(","c","o","r","e",")">>, <<"x">> }

RECURSIVE Concat(_)
Concat(parts) ==
    IF parts = << >> THEN << >> ELSE Head(parts) \o Concat(Tail(parts))

\* a type token alone, followed by ": x" or ":x", and with a scope
Spellings(t) ==
    { t, t \o <<":"," ","x">>, t \o <<"(","a",")",":"," ","x">>,
      t \o <<":","x">>, <<"a","(">> \o t \o <<":"," ","x">> }

\* the messages the checks are called with: every sequence of segments,
\* and every type of either list in each spelling
Messages ==
    { Concat(parts) : parts \in UNION { [ 1..n -> Segments ] : n \in 0..MaxParts } }
    \cup UNION { Spellings(t) : t \in conventional_types \cup valid_types }

InitValidate ==
    /\ config \in Configs
    /\ pc = "idle"
    /\ diff = << >>
    /\ context = EmptyContext
    /\ request = NoRequest
    /\ new_request = NoRequest
    /\ retry = 0
    /\ last_error = NoError
    /\ message \in Messages
    /\ result = NoResult
    /\ inflight = { }
    /\ sent = << >>
    /\ received = << >>
    /\ sleeps = << >>
    /\ response = NoResponse
    /\ is_conventional = FALSE
    /\ MainNotStarted

\* let is_conventional = is_conventional_commit(message)
Validate ==
    /\ pc = "idle"
    /\ is_conventional' = is_conventional_commit(message)
    /\ pc' = "validated"
    /\ UNCHANGED << config, diff, context, request, new_request, retry,
                    last_error, message, result, inflight, sent, received,
                    sleeps, response, is_valid, main_vars >>

\* let is_valid = generator.validate_message(message), on the same message
ValidateMessage ==
    /\ pc = "validated"
    /\ is_valid' = validate_message(message)
    /\ pc' = "compared"
    /\ UNCHANGED << config, diff, context, request, new_request, retry,
                    last_error, message, result, inflight, sent, received,
                    sleeps, response, is_conventional, main_vars >>

NextValidate ==
    \/ Validate
    \/ ValidateMessage

SpecValidate == InitValidate /\ [][NextValidate]_vars

\* the eleven types, as the grammar lists them
GrammarTypes ==
    { <<"f","e","a","t">>, <<"f","i","x">>, <<"d","o","c","s">>,
      <<"s","t","y","l","e">>, <<"r","e","f","a","c","t","o","r">>,
      <<"p","e","r","f">>, <<"t","e","s","t">>, <<"b","u","i","l","d">>,
      <<"c","i">>, <<"c","h","o","r","e">>, <<"r","e","v","e","r","t">> }

\* m has a first ": " at position i, and the text before it, cut at its
\* first '(' when it has one, is a grammar type
AcceptedByGrammar(m) ==
    \E i \in 1..(Len(m) - 1) :
        /\ m[i] = ":" /\ m[i + 1] = " "
        /\ \A j \in 1..(i - 1) : ~(m[j] = ":" /\ m[j + 1] = " ")
        /\ \E n \in 0..(i - 1) :
               /\ \A j \in 1..n : m[j] # "("
               /\ n = i - 1 \/ m[n + 1] = "("
               /\ [ j \in 1..n |-> m[j] ] \in GrammarTypes

\* C11: is_conventional_commit accepts a message exactly when its text
\* before the first ": ", cut at the first '(', is one of the eleven types;
\* the five examples of the grammar come out as stated.
C11_ValidatorIff ==
    /\ pc = "validated" => (is_conventional <=> AcceptedByGrammar(message))
    /\ is_conventional_commit(<<"f","e","a","t",":"," ","a","d","d"," ","x">>)
    /\ is_conventional_commit(<<"f","i","x","(","c","o","r","e",")",":"," ","y">>)
    /\ ~is_conventional_commit(<<"n","o"," ","c","o","l","o","n"," ","h","e","r","e">>)
    /\ ~is_conventional_commit(<<"f","e","a","t"," ","a","d","d"," ","x">>)
    /\ ~is_conventional_commit(<<"b","o","g","u","s",":"," ","x">>)

C11_Witness ==
    /\ pc = "validated"
    /\ message = <<"f","i","x","(","c","o","r","e",")",":"," ">>
    /\ is_conventional
(***************************************************************************)
(* ai.rs: CommitContext::from_diff applied to one diff                     *)
(***************************************************************************)

\* the longest diff, in chunks
MaxChunks == 3

Repeat(line, n) == [ i \in 1..n |-> line ]

\* the groups of lines diffs are put together from
Chunks ==
    { << <<"d","i","f","f"," ","-","-","g","i","t"," ","a","/","R","E","A","D","M","E",".","m","d"," ","b","/","R","E","A","D","M","E",".","m","d">> >>,
      << <<"d","i","f","f"," ","-","-","g","i","t"," ","a","/","s","r","c","/","l","i","b",".","r","s"," ","b","/","s","r","c","/","l","i","b",".","r","s">> >>,
      << <<"d","i","f","f"," ","-","-","g","i","t"," ","a","/","C","a","r","g","o",".","t","o","m","l",".","m","d"," ","b","/","C","a","r","g","o",".","t","o","m","l",".","m","d">> >>,
      << <<"d","i","f","f"," ","-","-","g","i","t"," ","a","/","t","e","s","t","s","/","t",".","r","s"," ","b","/","t","e","s","t","s","/","t",".","r","s">> >>,
      Repeat(<<"n","e","w"," ","f","i","l","e"," ","m","o","d","e"," ","1","0","0","6","4","4">>, 1),
      Repeat(<<"n","e","w"," ","f","i","l","e"," ","m","o","d","e"," ","1","0","0","6","4","4">>, 6),
      Repeat(<<"+","x">>, 1),
      Repeat(<<"+","x">>, 101),
      Repeat(<<"-","y">>, 3),
      << <<"i","n","d","e","x"," ","1","f","2",".",".","3","e","4">>,
         <<"-","-","-"," ","a","/","x">>,
         <<"+","+","+"," ","b","/","x">>,
         <<"@","@"," ","-","1"," ","+","1"," ","@","@">>,
         <<" ","c","t","x">>,
         <<"m","o","d","i","f","i","e","d"," ","x">> >>,
      << <<"+","+">>, <<"+">>, <<"-","-">>, <<"-","-","-">>,
         <<"+","+","+","+">>, << >> >> }

ClassifyDiffs ==
    { Concat(cs) : cs \in UNION { [ 1..n -> Chunks ] : n \in 0..MaxChunks } }

InitClassify ==
    /\ config \in Configs
    /\ pc = "idle"
    /\ diff \in ClassifyDiffs
    /\ context = EmptyContext
    /\ request = NoRequest
    /\ new_request = NoRequest
    /\ retry = 0
    /\ last_error = NoError
    /\ message = << >>
    /\ result = NoResult
    /\ inflight = { }
    /\ sent = << >>
    /\ received = << >>
    /\ sleeps = << >>
    /\ response = NoResponse
    /\ is_conventional = FALSE
    /\ MainNotStarted

\* let context = CommitContext::from_diff(diff)
Classify ==
    /\ pc = "idle"
    /\ context' = from_diff(diff)
    /\ pc' = "classified"
    /\ UNCHANGED << pure_vars, config, diff, request, new_request, retry,
                    last_error, message, result, inflight, sent, received,
                    sleeps >>

NextClassify == Classify

SpecClassify == InitClassify /\ [][NextClassify]_vars

(***************************************************************************)
(* Properties of the classification                                        *)
(***************************************************************************)

ManifestName == <<"C","a","r","g","o",".","t","o","m","l">>

DocExtensions == { <<"m","d">>, <<"t","x","t">> }

Elements(seq) == { seq[i] : i \in 1..Len(seq) }

\* the conditions of the five rules, over the signals of the context; the
\* documentation rule is taken over the recorded extension list
Rule1(c) ==
    /\ \E f \in Elements(c.new_files) : contains(f, ManifestName)
    /\ Len(c.new_files) > 5

Rule2(c) == Len(c.file_types) = 1 /\ c.file_types[1] \in DocExtensions

Rule3(c) ==
    \E f \in Elements(c.new_files) :
        contains(f, <<"t","e","s","t">>) \/ contains(f, <<"s","p","e","c">>)

Rule4(c) == c.total_additions > 100 \/ Len(c.new_files) > 5

Rule5(c) == c.total_deletions > 2 * c.total_additions

RuleHolds(i, c) ==
    CASE i = 1 -> Rule1(c)
      [] i = 2 -> Rule2(c)
      [] i = 3 -> Rule3(c)
      [] i = 4 -> Rule4(c)
      [] i = 5 -> Rule5(c)
      [] OTHER -> TRUE

RuleLabel ==
    << "initial project setup", "documentation change", "test addition",
       "large feature implementation", "major refactoring", "standard change" >>

\* C12: the category is the label of the first rule whose condition holds
\* (standard when none does): rule i's label is chosen exactly when rule i
\* holds and no earlier rule does.
C12_PriorityOrder ==
    pc = "classified"
    => \A i \in 1..6 :
           context.commit_type = RuleLabel[i]
           <=> (RuleHolds(i, context) /\ \A j \in 1..(i - 1) : ~RuleHolds(j, context))

\* more than 5 new files with a manifest and a single md extension: rule 1
\* wins over rule 2
C12_Witness ==
    /\ pc = "classified"
    /\ Rule1(context)
    /\ Rule2(context)
    /\ context.commit_type = "initial project setup"

\* large-feature although the deletions exceed twice the additions
C12_WitnessLargeFeature ==
    /\ pc = "classified"
    /\ Rule4(context)
    /\ Rule5(context)
    /\ context.commit_type = "large feature implementation"

\* C13 (as claimed): when rule 1 does not match and the set of distinct
\* extensions touched is a single documentation extension, the category is
\* documentation, however many file headers carry that extension.
C13_DocumentationDistinct ==
    ( /\ pc = "classified"
      /\ ~Rule1(context)
      /\ Cardinality(Elements(context.file_types)) = 1
      /\ Elements(context.file_types) \subseteq DocExtensions )
    => context.commit_type = "documentation change"

\* a line that counts as an added or a removed content line
ContentLine(line) ==
    \/ Len(line) >= 1 /\ line[1] = "+"
       /\ ~(Len(line) >= 3 /\ line[2] = "+" /\ line[3] = "+")
    \/ Len(line) >= 1 /\ line[1] = "-"
       /\ ~(Len(line) >= 3 /\ line[2] = "-" /\ line[3] = "-")

HeaderLine(line) ==
    starts_with(line, <<"d","i","f","f"," ","-","-","g","i","t">>)

NewFileLine(line) ==
    starts_with(line, <<"n","e","w"," ","f","i","l","e">>)

NoContentNoHeader ==
    \A i \in 1..Len(diff) : ~ContentLine(diff[i]) /\ ~HeaderLine(diff[i])

\* C14 (as claimed): a diff without content lines and without file
\* headers is standard with suggested type feat, whatever else it holds.
C14_NoContentIsStandard ==
    (pc = "classified" /\ NoContentNoHeader)
    => /\ context.commit_type = "standard change"
       /\ get_suggested_type(context) = <<"f","e","a","t">>

\* C14 (amended): such a diff is standard when at most 5 of its lines
\* begin with "new file" and large-feature otherwise; the suggested type
\* is feat in both cases.
C14_NoContentStandardUpTo5NewFiles ==
    (pc = "classified" /\ NoContentNoHeader)
    => /\ context.commit_type =
              IF Cardinality({ i \in 1..Len(diff) : NewFileLine(diff[i]) }) <= 5
              THEN "standard change"
              ELSE "large feature implementation"
       /\ get_suggested_type(context) = <<"f","e","a","t">>

C14_Witness ==
    /\ pc = "classified"
    /\ NoContentNoHeader
    /\ Len(diff) = 8
    /\ Len(context.new_files) = 2
    /\ Len(context.modified_files) = 1
    /\ context.commit_type = "standard change"

\* the suggested type of each category
TypeOfCategory(cat) ==
    CASE cat = "initial project setup"        -> <<"f","e","a","t">>
      [] cat = "documentation change"         -> <<"d","o","c","s">>
      [] cat = "test addition"                -> <<"t","e","s","t">>
      [] cat = "large feature implementation" -> <<"f","e","a","t">>
      [] cat = "major refactoring"            -> <<"r","e","f","a","c","t","o","r">>
      [] cat = "standard change"              -> <<"f","e","a","t">>

\* C15: the suggested type is determined by the category as the table
\* says; it is one of feat, docs, test, refactor and a type the grammar
\* validator accepts.
C15_SuggestedTypeOfCategory ==
    pc = "classified"
    => /\ context.commit_type \in Elements(RuleLabel)
       /\ get_suggested_type(context) = TypeOfCategory(context.commit_type)
       /\ get_suggested_type(context) \in
              { <<"f","e","a","t">>, <<"d","o","c","s">>, <<"t","e","s","t">>,
                <<"r","e","f","a","c","t","o","r">> }
       /\ is_conventional_commit(get_suggested_type(context) \o <<":"," ","x">>)

C15_Witness ==
    /\ pc = "classified"
    /\ context.commit_type = "major refactoring"
    /\ get_suggested_type(context) = <<"r","e","f","a","c","t","o","r">>
(***************************************************************************)
(* ai.rs: AiClient::try_generate_message, one call                         *)
(***************************************************************************)

\* the request goes out: .send().await
TrySend ==
    /\ pc = "idle"
    /\ sent' = Append(sent, [ kind |-> "outer", retry |-> 0, req |-> request,
                              nsleeps |-> 0 ])
    /\ inflight' = inflight \cup { Len(sent) + 1 }
    /\ pc' = "await_exchange"
    /\ UNCHANGED << pure_vars, config, diff, context, request, new_request, retry,
                    last_error, message, result, received, sleeps >>

\* the endpoint answers and the call returns
TryRecv(resp) ==
    /\ pc = "await_exchange"
    /\ response' = resp
    /\ received' = Append(received, try_generate_message(resp))
    /\ inflight' = inflight \ { Len(received) + 1 }
    /\ pc' = "exchanged"
    /\ UNCHANGED << config, diff, context, request, new_request, retry,
                    last_error, message, result, sent, sleeps, is_conventional,
                    is_valid, main_vars >>

NextExchange ==
    \/ TrySend
    \/ \E resp \in Responses : TryRecv(resp)

SpecExchange == Init /\ [][NextExchange]_vars

(***************************************************************************)
(* Properties of the request, the exchange and the schedule                *)
(***************************************************************************)

\* C16 (as claimed): the user message of the request is the template with
\* its first placeholder replaced by the classification summary and its
\* second by the diff text.
C16_UserMessageHasDiff ==
    pc # "idle"
    => LET content == request.messages[2].content IN
       /\ request.messages[2].role = "user"
       /\ Len(content) = 4
       /\ content[2].k = "ctx" /\ content[2].ctx = from_diff(diff)
       /\ content[4].k = "diff" /\ content[4].lines = diff

\* v is c without its leading and trailing whitespace
TrimmedOf(v, c) ==
    \E i \in 0..Len(c) : \E j \in i..Len(c) :
        /\ v = [ k \in 1..(j - i) |-> c[i + k] ]
        /\ \A k \in 1..i : c[k] \in { " ", "\t", "\n", "\r" }
        /\ \A k \in (j + 1)..Len(c) : c[k] \in { " ", "\t", "\n", "\r" }
        /\ j > i => ( c[i + 1] \notin { " ", "\t", "\n", "\r" }
                      /\ c[j] \notin { " ", "\t", "\n", "\r" } )

\* C17: one call of try_generate_message is one exchange: an error status
\* gives the API error with that status, a decoded body without a choice
\* gives the "no response" error, a decoded body with choices gives the
\* trimmed content of the first one.
C17_OneExchange ==
    pc = "exchanged"
    => /\ Len(sent) = 1
       /\ Len(received) = 1
       /\ inflight = { }
       /\ LET r == received[1] IN
          /\ (response.kind = "http" /\ response.status >= 400)
             => r = Err(RequestError(response.status))
          /\ (response.kind = "http" /\ response.status < 400 /\ response.decodes
              /\ Len(response.choices) = 0)
             => r = Err(CommitMessageGeneration("No response from API"))
          /\ (response.kind = "http" /\ response.status < 400 /\ response.decodes
              /\ Len(response.choices) > 0)
             => r.ok /\ TrimmedOf(r.val, response.choices[1])

C17_Witness ==
    /\ pc = "exchanged"
    /\ Len(response.choices) = 2
    /\ response.choices[1] # response.choices[2]
    /\ received[1].ok
    /\ received[1].val # response.choices[1]
    /\ is_conventional_commit(received[1].val)

\* C18: no sleep before outer attempt 0, one sleep of 1000 * 2^(k-1) ms
\* before outer attempt k = 1, 2 whatever ended attempt k-1, no sleep
\* before a sub-attempt or after the last attempt: at most 3000 ms in all.
C18_BackoffSchedule ==
    /\ \A j \in 1..Len(sleeps) :
           /\ sleeps[j].before = j
           /\ sleeps[j].ms = 1000 * (2 ^ (j - 1))
           /\ sleeps[j].nsent = j
    /\ \A i \in 1..Len(sent) :
           IF sent[i].kind = "outer"
           THEN sent[i].retry = i - 1 /\ sent[i].nsleeps = i - 1
           ELSE sent[i].nsleeps = sent[i - 1].nsleeps
    /\ Len(sleeps) <= 2
    /\ (IF Len(sleeps) = 0 THEN 0
        ELSE IF Len(sleeps) = 1 THEN sleeps[1].ms
        ELSE sleeps[1].ms + sleeps[2].ms) <= 3000
    /\ pc = "done" => Len(sleeps) <= Cardinality(OuterAnswered) - 1
    /\ (pc = "loop" /\ retry \in 1..(MAX_RETRIES - 1)) => Len(sleeps) = retry - 1
    /\ pc \in { "sleeping", "call" } => Len(sleeps) = retry

C18_Witness ==
    /\ pc = "done"
    /\ Len(sent) = 3
    /\ InvalidText(received[1])
    /\ RetryableFailure(received[2])
    /\ Len(sleeps) = 2
    /\ sleeps[1].ms = 1000
    /\ sleeps[2].ms = 2000

\* C19: the context is the classification of the diff of the call, made
\* before the first attempt; no later step changes it or the diff, every
\* request carries it, and a message returned by a non-final outer attempt
\* without a sub-attempt has the suggested type of that classification.
C19_ClassifiedOnce ==
    /\ [](pc # "idle" => context = from_diff(diff))
    /\ [][pc # "idle" => (context' = context /\ diff' = diff)]_vars
    /\ [](\A i \in 1..Len(sent) :
              sent[i].req.messages[2].content[2].ctx = from_diff(diff))
    /\ [](\A i \in OuterAnswered :
              ( /\ sent[i].retry < MAX_RETRIES - 1
                /\ pc = "done"
                /\ Len(sent) = i
                /\ result.ok )
              => LeadingType(result.val) = get_suggested_type(from_diff(diff)))

C19_Witness ==
    /\ pc = "done"
    /\ Len(sent) = 3
    /\ sent[3].kind = "sub"
    /\ Len(diff) > 0
    /\ context = from_diff(diff)
    /\ context.commit_type = "documentation change"

\* C20: a valid but type-mismatched message of the final outer attempt is
\* returned as it is, with no sub-attempt; a mismatched message never ends
\* in an error and no outer attempt follows it.
C20_FinalMismatchReturned ==
    \A i \in OuterAnswered :
        Mismatched(received[i])
        => /\ sent[i].retry = MAX_RETRIES - 1
              => /\ pc = "done"
                 /\ result = Ok(received[i].val)
                 /\ Len(sent) = i
           /\ pc = "done" => result.ok
           /\ \A j \in 1..Len(sent) : j > i => sent[j].kind = "sub"

C20_Witness ==
    /\ pc = "done"
    /\ Len(sent) = 3
    /\ sent[3].kind = "outer"
    /\ Mismatched(received[3])
    /\ result = Ok(received[3].val)

(***************************************************************************)
(* Properties of the line counters                                         *)
(***************************************************************************)

\* the line begins with '+' but not with "+++"
AddedLine(line) ==
    /\ Len(line) >= 1 /\ line[1] = "+"
    /\ ~(Len(line) >= 3 /\ line[2] = "+" /\ line[3] = "+")

\* the line begins with '-' but not with "---"
RemovedLine(line) ==
    /\ Len(line) >= 1 /\ line[1] = "-"
    /\ ~(Len(line) >= 3 /\ line[2] = "-" /\ line[3] = "-")

\* C21: after the classification the addition counter is the number of
\* lines beginning with '+' but not "+++", the deletion counter the number
\* of lines beginning with '-' but not "---"; every other line of the diff,
\* a header line included, leaves both counters as they are.
C21_CountersCountContentLines ==
    pc = "classified"
    => /\ context.total_additions =
              Cardinality({ i \in 1..Len(diff) : AddedLine(diff[i]) })
       /\ context.total_deletions =
              Cardinality({ i \in 1..Len(diff) : RemovedLine(diff[i]) })
       /\ \A line \in Elements(diff) :
              LET st    == [ ctx |-> context, current_file |-> << >> ]
                  after == scan_line(st, line).ctx
              IN  /\ ~AddedLine(line)
                     => after.total_additions = context.total_additions
                  /\ ~RemovedLine(line)
                     => after.total_deletions = context.total_deletions

\* a diff with "+++", "---", "++" and "--" lines next to counted ones
C21_Witness ==
    /\ pc = "classified"
    /\ \E i \in 1..Len(diff) : diff[i] = <<"+","+","+"," ","b","/","x">>
    /\ \E i \in 1..Len(diff) : diff[i] = <<"-","-","-">>
    /\ \E i \in 1..Len(diff) : diff[i] = <<"+","+">>
    /\ \E i \in 1..Len(diff) : HeaderLine(diff[i])
    /\ context.total_additions = 2
    /\ context.total_deletions = 1

(***************************************************************************)
(* Properties of the two grammar checks                                    *)
(***************************************************************************)

\* C22: is_conventional_commit and validate_message, called with the same
\* message, return the same value.
C22_SameVerdict ==
    pc = "compared" => is_valid = is_conventional

\* both accept a scoped message
C22_Witness ==
    /\ pc = "compared"
    /\ message = <<"f","i","x","(","c","o","r","e",")",":"," ">>
    /\ is_valid
    /\ is_conventional

(***************************************************************************)
(* Properties of the request budget and of termination                     *)
(***************************************************************************)

\* the sub-attempts among the requests sent so far
SubAttempts == { i \in 1..Len(sent) : sent[i].kind = "sub" }

\* C23: one call sends at most 3 requests, outer attempts and sub-attempts
\* together, and at most one sub-attempt; a sub-attempt is made on outer
\* attempt 0 or 1 only, it is the last request of the call, and the call
\* returns as soon as it is answered.
C23_RequestBudget ==
    /\ Len(sent) <= 3
    /\ Cardinality(SubAttempts) <= 1
    /\ \A i \in SubAttempts :
           /\ sent[i].retry \in { 0, 1 }
           /\ i = Len(sent)
           /\ i > 1 /\ sent[i - 1].kind = "outer" /\ sent[i - 1].retry = sent[i].retry
           /\ IF i \in Answered THEN pc = "done" ELSE pc = "await_sub"

\* three requests, the last one a sub-attempt of outer attempt 1
C23_Witness ==
    /\ pc = "done"
    /\ Len(sent) = 3
    /\ SubAttempts = { 3 }
    /\ sent[3].retry = 1
    /\ sent[1].kind = "outer" /\ sent[2].kind = "outer"

\* the outer attempts among the requests sent so far
OuterAttempts == { i \in 1..Len(sent) : sent[i].kind = "outer" }

\* C24: when every request is answered, a call that was made returns, with
\* a message or with an error; it makes at most 3 outer attempts, and the
\* attempt counter never decreases and never exceeds 3.
C24_Terminates ==
    /\ (pc # "idle") ~> (pc = "done")
    /\ [](pc = "done" => (result.ok \/ result.err # NoError))
    /\ [](pc # "done" => result = NoResult)
    /\ [](Cardinality(OuterAttempts) <= 3)
    /\ [](retry \in 0..3)
    /\ [][retry' >= retry]_vars

\* the call returned after three outer attempts and two sleeps
C24_Witness ==
    /\ pc = "done"
    /\ retry = 3
    /\ Cardinality(OuterAttempts) = 3
    /\ InvalidText(received[1])
    /\ InvalidText(received[2])
    /\ RetryableFailure(received[3])
    /\ ~result.ok

(***************************************************************************)
(* main.rs: main, from the opening of the repository to the exit           *)
(***************************************************************************)

Upper ==
    << "A","B","C","D","E","F","G","H","I","J","K","L","M",
       "N","O","P","Q","R","S","T","U","V","W","X","Y","Z" >>

Lower ==
    << "a","b","c","d","e","f","g","h","i","j","k","l","m",
       "n","o","p","q","r","s","t","u","v","w","x","y","z" >>

\* str::to_lowercase, on text in the Latin alphabet
to_lowercase(s) ==
    [ i \in 1..Len(s) |->
        IF \E k \in 1..26 : Upper[k] = s[i]
        THEN Lower[CHOOSE k \in 1..26 : Upper[k] = s[i]]
        ELSE s[i] ]

\* variant: the empty answer counts as a yes
confirmed_default_yes(line) ==
    to_lowercase(trim(line)) \in { <<"y">>, <<"y","e","s">>, << >> }

\* matches!(input.trim().to_lowercase().as_str(), "y" | "yes")
confirmed(line) ==
    to_lowercase(trim(line)) \in { <<"y">>, <<"y","e","s">> }

\* config.commit.verify_format && !is_conventional_commit(&commit_message)
verify_fails(cfg, commit_message) ==
    cfg.verify_format /\ ~is_conventional_commit(commit_message)

\* the error of a failed format verification
FormatError ==
    CommitMessageGeneration(
        "Generated message does not follow conventional commit format")

\* config.commit after the overrides from --auto-commit, --no-verify, --yes
CommitConfigs ==
    [ auto_commit : BOOLEAN, verify_format : BOOLEAN,
      require_confirmation : BOOLEAN ]

\* what read_line can put into input
Lines ==
    { <<"y","\n">>, <<"Y","\n">>, <<"y","e","s","\n">>,
      <<" ","Y","E","S"," ","\r","\n">>, <<"Y","e","s">>,
      <<"n","\n">>, <<"n","o","\n">>, <<"\n">>, << >>,
      <<"y","e","s"," ","p","l","e","a","s","e","\n">>,
      <<"y"," ","e","s","\n">>, <<"y","y","\n">> }

\* what repo.get_diff() can return: a non-empty diff text, or an error
DiffResults ==
    { Ok(d) : d \in Diffs \ { << >> } } \cup { Err(NoChanges), Err(GitError) }

\* the state of the generate_commit_message call
gen_vars == << config, pc, diff, context, request, new_request, retry,
               last_error, message, result, inflight, sent, received, sleeps >>

\* the arguments are parsed and the configuration is overridden;
\* --temperature is left at its default of 0.3
InitMain ==
    /\ config \in { c \in Configs : c.temperature = 300 }
    /\ pc = "idle"
    /\ diff = << >>
    /\ context = EmptyContext
    /\ request = NoRequest
    /\ new_request = NoRequest
    /\ retry = 0
    /\ last_error = NoError
    /\ message = << >>
    /\ result = NoResult
    /\ inflight = { }
    /\ sent = << >>
    /\ received = << >>
    /\ sleeps = << >>
    /\ response = NoResponse
    /\ is_conventional = FALSE
    /\ is_valid = FALSE
    /\ main_pc = "start"
    /\ commit_config \in CommitConfigs
    /\ api_key \in { "none", "key" }
    /\ repo_status \in { "clean", "dirty" }
    /\ input = NoInput
    /\ commits = << >>
    /\ exit = NoResult

\* GitRepo::new(..)? and the check repo.has_changes()?; opened says whether
\* the git operations succeeded
OpenRepo(opened) ==
    /\ main_pc = "start"
    /\ IF ~opened
       THEN exit' = Err(GitError) /\ main_pc' = "exit"
       ELSE IF repo_status # "dirty"
       THEN exit' = Err(NoChanges) /\ main_pc' = "exit"
       ELSE exit' = exit /\ main_pc' = "api_key"
    /\ UNCHANGED << gen_vars, response, is_conventional, is_valid, commit_config,
                    api_key, repo_status, input, commits >>

\* the API key, and AiClient::new(api_key, config.ai.clone())
GetApiKey ==
    /\ main_pc = "api_key"
    /\ IF api_key = "none"
       THEN exit' = Err(NoApiKey) /\ main_pc' = "exit"
       ELSE exit' = exit /\ main_pc' = "get_diff"
    /\ UNCHANGED << gen_vars, response, is_conventional, is_valid, commit_config,
                    api_key, repo_status, input, commits >>

\* let diff = repo.get_diff()?
GetDiff(r) ==
    /\ main_pc = "get_diff"
    /\ IF r.ok
       THEN diff' = r.val /\ exit' = exit /\ main_pc' = "generate"
       ELSE diff' = diff /\ exit' = Err(r.err) /\ main_pc' = "exit"
    /\ UNCHANGED << config, pc, context, request, new_request, retry, last_error,
                    message, result, inflight, sent, received, sleeps, response,
                    is_conventional, is_valid, commit_config, api_key,
                    repo_status, input, commits >>

\* ai_client.generate_commit_message(&diff).await: the steps of the call
GenerateStep ==
    \/ Generate(diff)
    \/ Sleep
    \/ Wake
    \/ SendOuter
    \/ \E resp \in Responses : RecvOuter(resp)
    \/ SendSub
    \/ \E resp \in Responses : RecvSub(resp)
    \/ Exhausted

\* the call has returned: the ? on its result, the format verification,
\* the printing of the message and the tests on auto_commit and
\* require_confirmation
AfterGenerate ==
    /\ main_pc = "generate"
    /\ pc = "done"
    /\ IF ~result.ok
       THEN exit' = Err(result.err) /\ main_pc' = "exit"
       ELSE IF verify_fails(commit_config, result.val)
       THEN exit' = Err(FormatError) /\ main_pc' = "exit"
       ELSE IF ~commit_config.auto_commit
       THEN exit' = Ok(<< >>) /\ main_pc' = "exit"
       ELSE IF commit_config.require_confirmation
       THEN exit' = exit /\ main_pc' = "confirm"
       ELSE exit' = exit /\ main_pc' = "commit"
    /\ UNCHANGED << gen_vars, response, is_conventional, is_valid, commit_config,
                    api_key, repo_status, input, commits >>

\* the prompt, io::stdin().read_line(&mut input)? and the test of the answer
Confirm(r) ==
    /\ main_pc = "confirm"
    /\ IF ~r.ok
       THEN input' = input /\ exit' = Err(r.err) /\ main_pc' = "exit"
       ELSE /\ input' = r.val
            /\ IF ~confirmed(r.val)
               THEN exit' = Ok(<< >>) /\ main_pc' = "exit"
               ELSE exit' = exit /\ main_pc' = "commit"
    /\ UNCHANGED << gen_vars, response, is_conventional, is_valid, commit_config,
                    api_key, repo_status, commits >>

\* repo.commit(&commit_message)? and Ok(()): committed says whether the
\* git operations of GitRepo::commit succeeded
Commit(committed) ==
    /\ main_pc = "commit"
    /\ IF committed
       THEN commits' = Append(commits, result.val) /\ exit' = Ok(<< >>)
       ELSE commits' = commits /\ exit' = Err(GitError)
    /\ main_pc' = "exit"
    /\ UNCHANGED << gen_vars, response, is_conventional, is_valid, commit_config,
                    api_key, repo_status, input >>

NextMain ==
    \/ \E opened \in BOOLEAN : OpenRepo(opened)
    \/ GetApiKey
    \/ \E r \in DiffResults : GetDiff(r)
    \/ main_pc = "generate" /\ GenerateStep
    \/ AfterGenerate
    \/ \E r \in { Ok(line) : line \in Lines } \cup { Err(IoError) } : Confirm(r)
    \/ \E committed \in BOOLEAN : Commit(committed)

SpecMain == InitMain /\ [][NextMain]_vars

(***************************************************************************)
(* Properties of main                                                      *)
(***************************************************************************)

\* the answer is y or yes, in any case, with whitespace around it
Affirmative(line) ==
    \E v \in { <<"y">>, <<"Y">> }
            \cup { << a, b, c >> : a \in { "y", "Y" }, b \in { "e", "E" },
                                   c \in { "s", "S" } } :
        TrimmedOf(v, line)

\* C25: a message returned by generate_commit_message passes the grammar
\* check, so main never exits with the error of the format verification,
\* with verify_format set or not.
C25_VerificationNeverFails ==
    /\ exit.err.text # "Generated message does not follow conventional commit format"
    /\ (pc = "done" /\ result.ok)
       => /\ AcceptedByGrammar(result.val)
          /\ \A cfg \in CommitConfigs : ~verify_fails(cfg, result.val)
    /\ (main_pc \in { "confirm", "commit" } \/ (main_pc = "exit" /\ exit.ok))
       => (pc = "done" /\ result.ok)

\* the verification was on, an invalid text had been received during the
\* call, and main still ended well after a valid one
C25_Witness ==
    /\ main_pc = "exit"
    /\ commit_config.verify_format
    /\ ~commit_config.auto_commit
    /\ exit = Ok(<< >>)
    /\ Len(received) = 2
    /\ InvalidText(received[1])
    /\ result = Ok(received[2].val)

\* C26: main commits at most once, and only when the repository had
\* changes, generate_commit_message returned a message, the message passed
\* the verification when that is on, auto_commit is on and, when a
\* confirmation is required, the answer was y or yes; no commit after a
\* failed generation or another answer; no request is sent from a clean
\* repository or without an API key.
C26_CommitOnlyWhenAllowed ==
    /\ [](Len(commits) <= 1)
    /\ [](Len(commits) = 1
          => /\ repo_status = "dirty"
             /\ pc = "done" /\ result.ok /\ commits[1] = result.val
             /\ commit_config.verify_format => AcceptedByGrammar(result.val)
             /\ commit_config.auto_commit
             /\ commit_config.require_confirmation => Affirmative(input))
    /\ []((pc = "done" /\ ~result.ok) => commits = << >>)
    /\ []((input # NoInput /\ ~Affirmative(input)) => commits = << >>)
    /\ []((repo_status = "clean" \/ api_key = "none") => Len(sent) = 0)
    /\ [][commits' # commits
           => /\ main_pc = "commit"
              /\ commits' = Append(commits, result.val)
              /\ UNCHANGED << gen_vars, input >>]_vars

\* one commit, after the answer " YES " was read
C26_Witness ==
    /\ main_pc = "exit"
    /\ Len(commits) = 1
    /\ commit_config.require_confirmation
    /\ commit_config.verify_format
    /\ input = <<" ","Y","E","S"," ","\r","\n">>
    /\ Len(sent) = 3
    /\ exit = Ok(<< >>)
====
